---- MODULE Spec2Model ----
(***************************************************************************)
(* A model of the rccl_test_runner package.                                *)
(*                                                                         *)
(*   SpecSweep   run_tests (main.py) over a configuration mapping:         *)
(*               Configuration.from_dict, the "all" expansion, one         *)
(*               run_executable per collective, then parse_output_json.    *)
(*   SpecIngest  ingest_zip / ingest_coverage_json (ingest.py) against one *)
(*               SQLAlchemy session and the schema of models.py.           *)
(*   SpecArchive one ingest_zip on a fresh session, with the archive's     *)
(*               files and the fields of its records.                      *)
(*   SpecParse   read_json_records (utils.py), parse_output_json           *)
(*               (output_parser.py) or the parsing inside ingest_zip       *)
(*               applied to one content.                                   *)
(*   SpecStats   summarize_results (stats.py) applied to one record list.  *)
(*   SpecUnify   unify_env_vars (dashboard_json.py) applied to one frame.  *)
(*   SpecBuild   one test dict, written or generated (generator.py), built *)
(*               by Configuration.from_dict and run by run_executable      *)
(*               (executor.py), with the text of the command.              *)
(***************************************************************************)
EXTENDS Integers, Sequences, FiniteSets, TLC

VARIABLES
    \* ---- run_tests (main.py) ----
    raw_config,   \* the loaded mapping, as the sequence of its test dicts
    pc,           \* position of run_tests
    ti,           \* index of the test entry the outer loop is at
    test_cfg,     \* the Configuration built for the current entry
    ci,           \* index into test_cfg.collectives of the running inner loop
    launched,     \* per entry: how many invocations of each collective were launched
    files,        \* per entry: the collectives whose result file exists
    failed,       \* the collectives of the current entry whose failure was caught and printed
    err,          \* the exception run_tests ended with, and the place that raised it
    \* ---- ingestion (ingest.py, models.py) ----
    committed,    \* rows of the store that are committed
    flushed,      \* rows INSERTed in the session's open transaction
    pending,      \* objects added to the session and not yet flushed
    sess,         \* "active", or "deactive" after a failed flush
    nextId,       \* the runs table's autoincrement counter
    call,         \* the ingestion call in progress (or the last one ended)
    hist,         \* one record per ended call
    scratch,      \* the calls whose scratch directory still exists
    \* ---- read_json_records (utils.py), parse_output_json (output_parser.py) ----
    encoded,      \* how the content was written: the encoding and the records
    json_bytes,   \* the content handed to the parser, as its lines
    parsed,       \* the parser applied and what it returned or raised
    \* ---- summarize_results (stats.py) ----
    results,      \* the records handed to summarize_results
    summary,      \* what it returned or raised
    \* ---- unify_env_vars (dashboard_json.py) ----
    df,           \* the rows of the frame, each with its env_dict
    env_bundles,  \* the env_bundle column unify_env_vars computed
    \* ---- Configuration.from_dict, build_command, run_executable ----
    test_dict,    \* the raw test dict
    config,       \* what Configuration.from_dict made of it
    environ,      \* os.environ, the ambient environment
    commands      \* one record per run_executable call

sweepVars == <<raw_config, pc, ti, test_cfg, ci, launched, files, failed, err>>
ingestVars == <<committed, flushed, pending, sess, nextId, call, hist, scratch>>
parseVars == <<encoded, json_bytes, parsed>>
statsVars == <<results, summary>>
unifyVars == <<df, env_bundles>>
buildVars == <<test_dict, config, environ, commands>>
analysisVars == <<parseVars, statsVars, unifyVars, buildVars>>
vars == <<sweepVars, ingestVars, analysisVars>>

Range(s) == {s[i] : i \in 1..Len(s)}

(***************************************************************************)
(* configuration.py                                                        *)
(***************************************************************************)
VALID_COLLECTIVES ==
    {"all", "all_gather", "all_reduce", "alltoall", "alltoallv", "scatter",
     "broadcast", "gather", "reduce", "reduce_scatter", "sendrecv"}

VALID_DATATYPES ==
    {"int8", "uint8", "int32", "uint32", "int64", "uint64", "half", "float",
     "double", "bloat16", "fp8_e4m3", "fp8_e5m2"}

VALID_STEP_TYPES == {"multiple", "increment"}

\* The collectives that name a benchmark executable: the vocabulary without
\* the sentinel.
RealCollectives == VALID_COLLECTIVES \ {"all"}

\* No step rule: step_detail is None.
NoStep == [type |-> "", value |-> 0]

\* A size is an int or a str (Union[int, str]).
IntSize(n) == [is_int |-> TRUE, int |-> n, str |-> ""]

StrSize(str) == [is_int |-> FALSE, int |-> 0, str |-> str]

NoCfg ==
    [collectives |-> <<>>, start_size |-> IntSize(0), end_size |-> IntSize(0),
     iterations |-> 0,
     operation |-> <<>>, step_detail |-> NoStep, datatypes |-> <<>>,
     ENV_VARS |-> <<>>, gpus_per_thread |-> 0]

\* StepDetail(**step_detail_dict): "" when construction succeeds, else the
\* exception.  A dict without both keys is a TypeError of the dataclass.
StepDetailError(sd) ==
    IF ~sd.has_type \/ ~sd.has_value THEN "TypeError"
    ELSE IF sd.type \notin VALID_STEP_TYPES THEN "ValueError"
    ELSE ""

\* An ENV_VARS loop that raises for no entry.
EnvVarsError_SkipInvalid(vs) == ""

\* The ENV_VARS loop of from_dict: the first entry that is not a dict raises
\* ValueError, the first dict without 'id' or 'value' raises KeyError.
RECURSIVE EnvVarsError(_)
EnvVarsError(vs) ==
    IF vs = <<>> THEN ""
    ELSE IF ~Head(vs).is_dict THEN "ValueError"
    ELSE IF ~Head(vs).has_id \/ ~Head(vs).has_value THEN "KeyError"
    ELSE EnvVarsError(Tail(vs))

EnvVarsOf(vs) == [i \in 1..Len(vs) |-> [name |-> vs[i].id, value |-> vs[i].value]]

\* __post_init__ without the loop over the datatypes.
PostInitError_NoDatatypes(c) ==
    IF \E i \in 1..Len(c.collectives) :
           c.collectives[i] \notin VALID_COLLECTIVES /\ c.collectives[i] # "all"
    THEN "ValueError"
    ELSE IF \/ c.start_size.is_int /\ c.start_size.int < 0
            \/ c.end_size.is_int /\ c.end_size.int < 0
    THEN "ValueError"
    ELSE ""

\* Configuration.__post_init__
PostInitError(c) ==
    IF \E i \in 1..Len(c.collectives) :
           c.collectives[i] \notin VALID_COLLECTIVES /\ c.collectives[i] # "all"
    THEN "ValueError"
    ELSE IF \/ c.start_size.is_int /\ c.start_size.int < 0
            \/ c.end_size.is_int /\ c.end_size.int < 0
    THEN "ValueError"
    ELSE IF \E i \in 1..Len(c.datatypes) : c.datatypes[i] \notin VALID_DATATYPES
    THEN "ValueError"
    ELSE ""

\* step_detail_dict = d.get("step_details", [{}])[0]
StepDetailDict(d) ==
    IF ~d.has_step_details THEN [has_type |-> FALSE, has_value |-> FALSE, type |-> "", value |-> 0]
    ELSE d.step_details[1]

FromDictCfg(d) ==
    [collectives |-> d.collectives, start_size |-> d.start_size,
     end_size |-> d.end_size, iterations |-> d.iterations,
     operation |-> d.operation,
     step_detail |-> [type |-> StepDetailDict(d).type, value |-> StepDetailDict(d).value],
     datatypes |-> d.datatypes, ENV_VARS |-> EnvVarsOf(d.ENV_VARS),
     gpus_per_thread |-> d.gpus_per_thread]

\* Configuration.from_dict: [err |-> "", cfg |-> the Configuration], or the
\* exception it raises, in the order the code reaches them.
FromDict(d) ==
    IF d.has_step_details /\ d.step_details = <<>> THEN [err |-> "IndexError", cfg |-> NoCfg]
    ELSE IF StepDetailError(StepDetailDict(d)) # ""
    THEN [err |-> StepDetailError(StepDetailDict(d)), cfg |-> NoCfg]
    ELSE IF EnvVarsError(d.ENV_VARS) # ""
    THEN [err |-> EnvVarsError(d.ENV_VARS), cfg |-> NoCfg]
    ELSE IF PostInitError(FromDictCfg(d)) # ""
    THEN [err |-> PostInitError(FromDictCfg(d)), cfg |-> NoCfg]
    ELSE [err |-> "", cfg |-> FromDictCfg(d)]

(***************************************************************************)
(* Inputs of the sweep: raw test dicts as load_yaml_config returns them.   *)
(***************************************************************************)
MaxTests == 2
MaxAbnormal == 1

StepEntry(t, v) == [has_type |-> TRUE, has_value |-> TRUE, type |-> t, value |-> v]

BaseTest ==
    [collectives |-> <<"all_reduce">>, start_size |-> IntSize(1),
     end_size |-> IntSize(1024),
     iterations |-> 20, operation |-> <<"sum">>, has_step_details |-> TRUE,
     step_details |-> <<StepEntry("multiple", 2)>>, datatypes |-> <<"float">>,
     ENV_VARS |-> <<>>, gpus_per_thread |-> 1]

CollectiveLists == {<<"all_reduce", "broadcast">>, <<"all">>, <<>>, <<"bogus">>}

TestDicts ==
    {[BaseTest EXCEPT !.collectives = cs] : cs \in CollectiveLists}
    \cup {[BaseTest EXCEPT !.step_details = <<StepEntry("bogus", 2)>>]}

Configs == UNION {[1..n -> TestDicts] : n \in 0..MaxTests}

\* What one external invocation can do: its exit and whether it left its
\* result file.  A launch error starts no process, so it leaves no file.
RunOutcomes ==
    {[exit |-> "zero", file |-> TRUE], [exit |-> "zero", file |-> FALSE],
     [exit |-> "nonzero", file |-> TRUE], [exit |-> "nonzero", file |-> FALSE],
     [exit |-> "launch_error", file |-> FALSE]}

Abnormal(o) == o.exit # "zero" \/ ~o.file

(***************************************************************************)
(* executor.py                                                             *)
(***************************************************************************)
\* build_command without the else branch of the step kind.
BuildCommandError_NoElse(cfg) == ""

\* build_command: the exception it raises ("" when it returns the command).
BuildCommandError(cfg) ==
    IF cfg.step_detail # NoStep /\ cfg.step_detail.type \notin {"multiple", "increment"}
    THEN "KeyError"
    ELSE ""

\* run_executable without its try/except around the launch.
RunExecutableError_NoCatch(cfg, o) ==
    IF BuildCommandError(cfg) # "" THEN BuildCommandError(cfg)
    ELSE IF o.exit = "nonzero" THEN "CalledProcessError"
    ELSE IF o.exit = "launch_error" THEN "OSError"
    ELSE ""

\* run_executable: the exception that leaves it.  build_command runs before
\* the try; CalledProcessError and every other Exception of the launch are
\* caught and printed.
RunExecutableError(cfg, o) ==
    IF BuildCommandError(cfg) # "" THEN BuildCommandError(cfg) ELSE ""

\* A text is the sequence of its pieces.  str(n) of an int:
DigitChars == <<"0", "1", "2", "3", "4", "5", "6", "7", "8", "9">>

RECURSIVE IntStr(_)
IntStr(n) ==
    IF n < 10 THEN DigitChars[n + 1]
    ELSE IntStr(n \div 10) \o DigitChars[(n % 10) + 1]

\* sep.join(parts)
RECURSIVE JoinBy(_, _)
JoinBy(parts, sep) ==
    IF parts = <<>> THEN <<>>
    ELSE IF Len(parts) = 1 THEN parts[1]
    ELSE parts[1] \o <<sep>> \o JoinBy(Tail(parts), sep)

Singles(strs) == [k \in 1..Len(strs) |-> <<strs[k]>>]

\* format_size: the str as it is, the int by str()
FormatSize(size) == IF size.is_int THEN IntStr(size.int) ELSE size.str

MpirunPrefix ==
    "mpirun -np 8 --mca pml ucx --mca btl ^openib -x NCCL_DEBUG=VERSION -x HSA_NO_SCRATCH_RECLAIM=1"

\* The loop of lines 24-26 without its condition.
EnvStr_KeepDefault(env_vars) ==
    [k \in 1..Len(env_vars) |-> <<"-x ", env_vars[k].name, "=", env_vars[k].value>>]

\* lines 23-26: one "-x NAME=VALUE" part per entry whose value is not "default"
RECURSIVE EnvStr(_)
EnvStr(env_vars) ==
    IF env_vars = <<>> THEN <<>>
    ELSE IF Head(env_vars).value # "default"
    THEN <<<<"-x ", Head(env_vars).name, "=", Head(env_vars).value>>>>
         \o EnvStr(Tail(env_vars))
    ELSE EnvStr(Tail(env_vars))

\* lines 12-21 and 35: the step flag and str(step_value) if step_value else ''
StepFlag(cfg) ==
    IF cfg.step_detail = NoStep THEN ""
    ELSE IF cfg.step_detail.type = "multiple" THEN "-f"
    ELSE IF cfg.step_detail.type = "increment" THEN "-i"
    ELSE ""

StepValue(cfg) ==
    IF cfg.step_detail = NoStep \/ cfg.step_detail.value = 0 THEN ""
    ELSE IntStr(cfg.step_detail.value)

\* lines 28-41: cmd_parts
CmdParts(executable, cfg, output_path) ==
    <<<<MpirunPrefix>>>> \o EnvStr(cfg.ENV_VARS)
    \o <<<<executable.path>>,
          <<"-d">>, JoinBy(Singles(cfg.datatypes), ","),
          <<"-b">>, <<FormatSize(cfg.start_size)>>,
          <<"-e">>, <<FormatSize(cfg.end_size)>>,
          <<StepFlag(cfg)>>, <<StepValue(cfg)>>,
          <<"-g">>, <<IntStr(cfg.gpus_per_thread)>>,
          <<"-n">>, <<IntStr(cfg.iterations)>>,
          <<"-o">>, JoinBy(Singles(cfg.operation), ","),
          <<"--output_file">>, <<output_path, "/", executable.stem, ".json">>,
          <<"--output_format">>, <<"json">>>>

\* build_command that passes the ambient environment on as -x arguments.
BuildCommand_AmbientEnv(executable, cfg, output_path) ==
    IF BuildCommandError(cfg) # "" THEN [raised |-> BuildCommandError(cfg), text |-> <<>>]
    ELSE [raised |-> "",
          text |-> JoinBy(CmdParts(executable, cfg, output_path)
                          \o [k \in 1..Len(environ) |-> <<"-x ", environ[k]>>], " ")]

\* executor.py:11-43
BuildCommand(executable, cfg, output_path) ==
    IF BuildCommandError(cfg) # "" THEN [raised |-> BuildCommandError(cfg), text |-> <<>>]
    ELSE [raised |-> "", text |-> JoinBy(CmdParts(executable, cfg, output_path), " ")]

(***************************************************************************)
(* generator.py                                                            *)
(***************************************************************************)
\* env_var_values, in the order of the dict
env_var_values ==
    <<[var |-> "NCCL_MIN_NCHANNELS", values |-> <<12, 16, 32>>],
      [var |-> "NCCL_MAX_NCHANNELS", values |-> <<1, 4, 8, 16, 32, 64, 128>>],
      [var |-> "NCCL_NCHANNELS_PER_NET_PEER", values |-> <<1, 2, 4, 8, 16, 32>>],
      [var |-> "NCCL_NCHANNELS_PER_PEER", values |-> <<1, 2, 4, 8, 16, 32>>],
      [var |-> "NCCL_MIN_P2P_NCHANNELS", values |-> <<1, 2, 4, 8, 16>>],
      [var |-> "NCCL_MAX_P2P_NCHANNELS", values |-> <<4, 8, 16, 32>>],
      [var |-> "NCCL_IGNORE_CPU_AFFINITY", values |-> <<0, 1>>],
      [var |-> "NCCL_MAX_CTAS", values |-> <<1, 2, 4, 8>>],
      [var |-> "NCCL_MIN_CTAS", values |-> <<1, 2, 4, 8>>]>>

all_keys == [k \in 1..Len(env_var_values) |-> env_var_values[k].var]

\* An ENV_VARS entry {"id": ..., "value": ...}; an int value is written by
\* its digits, as the command text shows it.
EnvEntry(id, value) ==
    [is_dict |-> TRUE, has_id |-> TRUE, has_value |-> TRUE, id |-> id, value |-> value]

\* lines 19-27; a dict without gpus_per_thread reads as 1 (d.get)
base_config ==
    [collectives |-> <<"all">>, start_size |-> IntSize(1), end_size |-> StrSize("16g"),
     iterations |-> 2, operation |-> <<"all">>, has_step_details |-> TRUE,
     step_details |-> <<[has_type |-> TRUE, has_value |-> TRUE,
                         type |-> "multiple", value |-> 2]>>,
     datatypes |-> <<"all">>, ENV_VARS |-> <<>>, gpus_per_thread |-> 1]

\* lines 42-57: the entry for value val of variable var: var first, then
\* every other variable with "default"
SweepEntry(var, val) ==
    LET IsOther(key) == key # var IN
    [base_config EXCEPT !.ENV_VARS =
        <<EnvEntry(var, IntStr(val))>>
        \o [k \in 1..Len(all_keys) - 1 |-> EnvEntry(SelectSeq(all_keys, IsOther)[k], "default")]]

\* lines 60-65
off_entry ==
    [base_config EXCEPT !.ENV_VARS = [k \in 1..Len(all_keys) |-> EnvEntry(all_keys[k], "0")]]

final_configs ==
    UNION {{SweepEntry(env_var_values[k].var, env_var_values[k].values[j]) :
               j \in 1..Len(env_var_values[k].values)} : k \in 1..Len(env_var_values)}
    \cup {off_entry}

(***************************************************************************)
(* A test dict is built into a Configuration and handed to run_executable. *)
(***************************************************************************)
MaxBuilds == 2

NotADict == [is_dict |-> FALSE, has_id |-> FALSE, has_value |-> FALSE, id |-> "", value |-> ""]

EnvLists ==
    {<<>>,
     <<EnvEntry("B", "2"), EnvEntry("A", "default"), EnvEntry("A", "1")>>,
     <<EnvEntry("A", "default")>>,
     <<NotADict>>,
     <<EnvEntry("A", "1"), [EnvEntry("B", "") EXCEPT !.has_value = FALSE]>>,
     <<[EnvEntry("", "1") EXCEPT !.has_id = FALSE]>>}

\* The test dicts a configuration file may hold, and the generator's.
WrittenDicts ==
    {[BaseTest EXCEPT !.collectives = cs, !.datatypes = ds, !.step_details = <<sd>>,
                      !.has_step_details = hs, !.ENV_VARS = ev] :
        cs \in {<<"all_reduce">>, <<"all_reduce", "bogus">>, <<"all">>},
        ds \in {<<"float">>, <<"float", "bogus">>},
        sd \in {StepEntry("multiple", 2), StepEntry("increment", 0), StepEntry("bogus", 2)},
        hs \in {TRUE},
        ev \in EnvLists}
    \cup {[BaseTest EXCEPT !.has_step_details = FALSE, !.step_details = <<>>]}

Executables ==
    {[path |-> "build/all_reduce_perf", stem |-> "all_reduce_perf"],
     [path |-> "build/broadcast_perf", stem |-> "broadcast_perf"]}

Environs == {<<>>, <<"A=9">>}

NotConstructed == [state |-> "none", err |-> "", cfg |-> NoCfg]

\* test_cfg = Configuration.from_dict(test_dict)
Construct ==
    /\ config.state = "none"
    /\ LET r == FromDict(test_dict) IN
       config' = [state |-> IF r.err = "" THEN "constructed" ELSE "failed",
                  err |-> r.err, cfg |-> r.cfg]
    /\ UNCHANGED <<test_dict, environ, commands>>

\* The caller assigns config.step_detail, or its type, after construction:
\* a dataclass validates no assignment.
AssignStepDetail ==
    /\ config.state = "constructed" /\ config.cfg = FromDict(test_dict).cfg
    /\ \E sd \in {NoStep, [type |-> "bogus", value |-> 2]} :
         config' = [config EXCEPT !.cfg.step_detail = sd]
    /\ UNCHANGED <<test_dict, environ, commands>>

\* The ambient environment changes.
SetEnviron ==
    /\ \E e \in Environs \ {environ} : environ' = e
    /\ UNCHANGED <<test_dict, config, commands>>

\* executor.py:45-64: build_command, then the launch
CallRunExecutable ==
    /\ config.state = "constructed" /\ Len(commands) < MaxBuilds
    /\ \E executable \in Executables, output_path \in {"out"} :
         LET cmd == BuildCommand(executable, config.cfg, output_path) IN
         commands' = Append(commands,
             [executable |-> executable, cfg |-> config.cfg, output_path |-> output_path,
              environ |-> environ, raised |-> cmd.raised, text |-> cmd.text,
              spawned |-> cmd.raised = ""])
    /\ UNCHANGED <<test_dict, config, environ>>

BuildIdle ==
    /\ test_dict = BaseTest /\ config = NotConstructed
    /\ environ = <<>> /\ commands = <<>>

(***************************************************************************)
(* main.py: run_tests                                                      *)
(***************************************************************************)
RealOrder ==
    <<"all_gather", "all_reduce", "alltoall", "alltoallv", "scatter",
      "broadcast", "gather", "reduce", "reduce_scatter", "sendrecv">>

\* Iterating the set VALID_COLLECTIVES: the order is the interpreter's.  The
\* ten real collectives are treated alike by run_tests, so up to renaming them
\* an order is fixed by where "all" comes.
SetOrders ==
    {SubSeq(RealOrder, 1, p) \o <<"all">> \o SubSeq(RealOrder, p + 1, Len(RealOrder)) :
        p \in 0..Len(RealOrder)}

\* lines 38-39: test_cfg.collectives = VALID_COLLECTIVES when the first is "all"
Expand(cs) == IF cs[1] = "all" THEN SetOrders ELSE {cs}

NoErr == [site |-> "", type |-> ""]

Raise(site, e) == pc' = "raised" /\ err' = [site |-> site, type |-> e]

\* lines 25-39: the loop head: from_dict, the test directory, the expansion
BeginTest ==
    /\ pc = "next_test" /\ ti <= Len(raw_config)
    /\ LET r == FromDict(raw_config[ti]) IN
       IF r.err # "" THEN
           Raise("from_dict", r.err) /\ UNCHANGED <<test_cfg, ci>>
       ELSE IF r.cfg.collectives = <<>> THEN
           Raise("expand", "IndexError") /\ UNCHANGED <<test_cfg, ci>>
       ELSE
           /\ \E cs \in Expand(r.cfg.collectives) :
                  test_cfg' = [r.cfg EXCEPT !.collectives = cs]
           /\ pc' = "launch" /\ ci' = 1 /\ err' = err
    /\ failed' = {}
    /\ UNCHANGED <<raw_config, ti, launched, files>>

Launched(i) == {c \in DOMAIN launched[i] : launched[i][c] > 0}

AbnormalCount(i) == Cardinality(failed \cup (Launched(i) \ files[i]))

\* lines 41-42: one run_executable of the collective loop
LaunchCollective ==
    /\ pc = "launch" /\ ci <= Len(test_cfg.collectives)
    /\ \E o \in RunOutcomes :
         LET c == test_cfg.collectives[ci]
             e == RunExecutableError(test_cfg, o) IN
         /\ Abnormal(o) => AbnormalCount(ti) < MaxAbnormal
         /\ IF BuildCommandError(test_cfg) = "" THEN
                /\ launched' = [launched EXCEPT ![ti][c] = @ + 1]
                /\ files' = [files EXCEPT ![ti] = IF o.file THEN @ \cup {c} ELSE @]
                /\ failed' = IF o.exit # "zero" THEN failed \cup {c} ELSE failed
            ELSE UNCHANGED <<launched, files, failed>>
         /\ IF e # "" THEN Raise("run_executable", e) /\ ci' = ci
            ELSE /\ err' = err
                 /\ IF ci = Len(test_cfg.collectives)
                    THEN pc' = "parse" /\ ci' = 1
                    ELSE pc' = pc /\ ci' = ci + 1
    /\ UNCHANGED <<raw_config, ti, test_cfg>>

\* output_parser.py, parse_output_json: file_path.open raises when the file
\* does not exist; malformed lines are skipped.
ParseOutputError(fs, c) == IF c \in fs THEN "" ELSE "FileNotFoundError"

\* lines 44-47: one parse_output_json of the result loop
ParseResult ==
    /\ pc = "parse" /\ ci <= Len(test_cfg.collectives)
    /\ LET e == ParseOutputError(files[ti], test_cfg.collectives[ci]) IN
       IF e # "" THEN Raise("parse_output_json", e) /\ UNCHANGED <<ti, ci>>
       ELSE /\ err' = err
            /\ IF ci = Len(test_cfg.collectives)
               THEN pc' = "next_test" /\ ti' = ti + 1 /\ ci' = 1
               ELSE pc' = pc /\ ti' = ti /\ ci' = ci + 1
    /\ UNCHANGED <<raw_config, test_cfg, launched, files, failed>>

\* line 50: return output_root
Return ==
    /\ pc = "next_test" /\ ti > Len(raw_config)
    /\ pc' = "returned"
    /\ UNCHANGED <<raw_config, ti, test_cfg, ci, launched, files, failed, err>>

(***************************************************************************)
(* models.py: the rows of the store.  Every row carries the id of the Run  *)
(* that owns it (for a row of runs, its own id; 0 while the object is      *)
(* pending and has none) and its ordinal n among the rows its ingestion    *)
(* added to the same table.                                                *)
(***************************************************************************)
\* The columns of benchmark_records the ingestion fills from a record.
NoCols == [collective |-> "", redop |-> "", in_place |-> "", wrong |-> ""]

\* Where a row of benchmark_records comes from (not a column): the stem of the
\* result file and the record read from it.
NoSrc ==
    [file |-> "", rec |-> [name |-> "", redop |-> "", inPlace |-> "", wrong |-> ""]]

RunRow(id, label, kind) ==
    [tbl |-> "runs", run |-> id, n |-> 0, label |-> label, kind |-> kind,
     totals |-> FALSE, cols |-> NoCols, src |-> NoSrc]

ChildRow(tbl, id, n, cols, src) ==
    [tbl |-> tbl, run |-> id, n |-> n, label |-> "", kind |-> "",
     totals |-> FALSE, cols |-> cols, src |-> src]

\* A JSON record of a result file: each field is Absent, or holds JSON null
\* (JsonNull), or a value; integers are written by their digits.
Absent == "<absent>"

JsonNull == "<null>"

\* Python's None, and the NULL it is stored as.
None == "NULL"

\* rec.get(key) and rec.get(key, default)
Get(rec, key, default) ==
    IF rec[key] = Absent THEN default
    ELSE IF rec[key] = JsonNull THEN None
    ELSE rec[key]

\* bool(x) of None, 0 or 1, as the Boolean column stores it.
Bool(x) == IF x \in {None, "0"} THEN "false" ELSE "true"

\* str(x): str(None) is "None".
Str(x) == IF x = None THEN "None" ELSE x

\* lines 89-105: BenchmarkRecord(run_id=..., collective=rec.get("name"), ...)
BenchmarkRecord(id, n, from, rec) ==
    ChildRow("benchmark_records", id, n,
             [collective |-> Get(rec, "name", None),
              redop |-> Get(rec, "redop", None),
              in_place |-> Bool(Get(rec, "inPlace", None)),
              wrong |-> Str(Get(rec, "wrong", "0"))],
             [file |-> from, rec |-> rec])

CoverageRecord(id, n) == ChildRow("coverage_records", id, n, NoCols, NoSrc)

\* An EnvVar added without the run_id of its Run.
EnvVarRow_NoRunId(id, n) == ChildRow("env_vars", 0, n, NoCols, NoSrc)

EnvVarRow(id, n) == ChildRow("env_vars", id, n, NoCols, NoSrc)

RunsOf(rows) == {r \in rows : r.tbl = "runs"}

LabelsOf(rows) == {r.label : r \in RunsOf(rows)}

\* Run.benchmarks and Run.coverages cascade, Run.env_vars does not.
OwnedRows_NoEnvVarCascade(rows, id) ==
    {r \in rows : r.run = id /\ r.tbl \in {"benchmark_records", "coverage_records"}}

\* The rows a Run owns through its three relationships, each declared with
\* cascade="all, delete-orphan".
OwnedRows(rows, id) ==
    {r \in rows : r.run = id
                  /\ r.tbl \in {"benchmark_records", "coverage_records", "env_vars"}}

(***************************************************************************)
(* The session: add puts an object in pending; flush INSERTs the pending   *)
(* objects into the open transaction and fails as a whole on a constraint  *)
(* of models.py, which rolls the transaction back and leaves the session   *)
(* unusable until rollback() is called; commit is flush, then COMMIT.      *)
(***************************************************************************)
\* A flush that does not enforce runs.run_label unique.
FlushError_NoUnique(objs, open, stored, s) ==
    IF s = "deactive" THEN "PendingRollbackError"
    ELSE IF \E r \in objs : r.tbl = "benchmark_records" /\ r.cols.collective = None
    THEN "IntegrityError"
    ELSE ""

\* The error of flushing objs into the open transaction ("" when it succeeds):
\* run_label is unique (models.py:14), collective is not nullable (models.py:54).
FlushError(objs, open, stored, s) ==
    IF s = "deactive" THEN "PendingRollbackError"
    ELSE IF \E r \in RunsOf(objs) : r.label \in LabelsOf(open \cup stored)
    THEN "IntegrityError"
    ELSE IF \E r \in objs : r.tbl = "benchmark_records" /\ r.cols.collective = None
    THEN "IntegrityError"
    ELSE ""

\* The INSERT of a Run populates its autoincrement id.
AssignIds(objs, id) ==
    {IF r.tbl = "runs" THEN [r EXCEPT !.run = id] ELSE r : r \in objs}

(***************************************************************************)
(* Inputs of the ingestion: what an archive holds.                         *)
(***************************************************************************)
MaxCalls == 2
MaxFiles == 2

Labels == {"run_a", "run_b"}

\* The files an archive may hold: the depth of the file below the extraction
\* directory, and its name as stem and tail.
ArchiveFiles ==
    {[depth |-> 1, stem |-> "all_reduce", tail |-> "_perf.json"],
     [depth |-> 3, stem |-> "broadcast", tail |-> "_perf.json"],
     [depth |-> 1, stem |-> "coverage", tail |-> ".json"]}

\* The archives of at most MaxFiles of the given files.
Archives(members) == {a \in SUBSET members : Cardinality(a) <= MaxFiles}

\* The records of result files.
FullRecord ==
    [name |-> "all_reduce", redop |-> "sum", inPlace |-> "1", wrong |-> "1"]

NamelessRecord == [FullRecord EXCEPT !.name = Absent]

TypicalRecords ==
    {FullRecord,
     [FullRecord EXCEPT !.redop = Absent, !.inPlace = Absent, !.wrong = Absent],
     [FullRecord EXCEPT !.redop = JsonNull, !.inPlace = "0"],
     NamelessRecord}

\* A *_perf.json file: whether json.load or the jsonlines fallback parses it,
\* and its records, drawn from the given ones.
PerfFiles(records) ==
    {[parses |-> TRUE, recs |-> <<r>>] : r \in records}
    \cup {[parses |-> FALSE, recs |-> <<>>]}

\* A coverage JSON file: whether it parses, whether it has a non-empty "data"
\* array, the number of data[0].files entries, whether data[0].totals is there.
CoverageDocs ==
    {[parses |-> TRUE, has_data |-> TRUE, nfiles |-> 1, has_totals |-> TRUE],
     [parses |-> TRUE, has_data |-> TRUE, nfiles |-> 1, has_totals |-> FALSE],
     [parses |-> TRUE, has_data |-> FALSE, nfiles |-> 0, has_totals |-> FALSE],
     [parses |-> FALSE, has_data |-> FALSE, nfiles |-> 0, has_totals |-> FALSE]}

\* A *.yaml snapshot: whether yaml.safe_load parses it, whether its top level
\* is a mapping, whether every value of that mapping is a mapping with a list
\* of id/value mappings, and the number of entries with an id and a value.
YamlSnapshots ==
    {[parses |-> TRUE, is_mapping |-> TRUE, bundles_ok |-> TRUE, nvars |-> 1],
     [parses |-> FALSE, is_mapping |-> FALSE, bundles_ok |-> FALSE, nvars |-> 0],
     [parses |-> TRUE, is_mapping |-> FALSE, bundles_ok |-> FALSE, nvars |-> 0],
     [parses |-> TRUE, is_mapping |-> TRUE, bundles_ok |-> FALSE, nvars |-> 0]}

SeqsUpTo(S, lo, hi) == UNION {[1..n -> S] : n \in lo..hi}

(***************************************************************************)
(* ingest.py                                                               *)
(***************************************************************************)
NoCall ==
    [fn |-> "", n |-> 0, label |-> "", run |-> 0, is_bench |-> FALSE,
     phase |-> "idle", cause |-> "", path |-> <<>>, dup |-> FALSE, owned |-> 0,
     archive |-> {}]

NoCallRunning == call.phase \in {"idle", "returned", "raised"}

Ended(c, outcome) == [n |-> c.n, fn |-> c.fn, label |-> c.label, run |-> c.run, outcome |-> outcome]

\* The call ends with exception e; steps is what it went through on the way.
IngestRaise(c, e, steps) ==
    /\ call' = [c EXCEPT !.phase = "raised", !.cause = e, !.path = @ \o steps]
    /\ hist' = Append(hist, Ended(c, "raised"))

\* lines 20-32: the scratch directory, the extraction, the label
BeginIngestZip(members, calls) ==
    /\ NoCallRunning /\ Len(hist) < calls
    /\ \E label \in Labels, readable \in BOOLEAN, archive \in Archives(members) :
         LET c == [NoCall EXCEPT !.fn = "ingest_zip", !.n = Len(hist) + 1,
                                 !.label = label, !.phase = "start",
                                 !.dup = label \in LabelsOf(committed)] IN
         /\ scratch' = scratch \cup {c.n}
         /\ IF readable
            THEN /\ call' = [c EXCEPT !.path = <<"unpacked">>, !.archive = archive]
                 /\ hist' = hist
            ELSE /\ archive = {}
                 /\ IngestRaise(c, "BadZipFile", <<>>)
    /\ UNCHANGED <<committed, flushed, pending, sess, nextId>>

\* line 177: ingest_coverage_json is entered with its label
BeginIngestCoverageJson ==
    /\ NoCallRunning /\ Len(hist) < MaxCalls
    /\ \E label \in Labels :
         call' = [NoCall EXCEPT !.fn = "ingest_coverage_json", !.n = Len(hist) + 1,
                                !.label = label, !.phase = "start",
                                !.dup = label \in LabelsOf(committed)]
    /\ UNCHANGED <<committed, flushed, pending, sess, nextId, hist, scratch>>

\* Path(extract_dir).glob("*_perf.json"): the extraction directory only.
PerfPaths_TopLevelOnly(archive) ==
    {f \in archive : f.tail = "_perf.json" /\ f.depth = 1}

\* line 35: Path(extract_dir).rglob("*_perf.json"), every depth
PerfPaths(archive) == {f \in archive : f.tail = "_perf.json"}

\* lines 35-56 (and 179-181): classify, Run(...), session.add, session.flush
CreateRun ==
    /\ call.phase = "start"
    /\ \E is_bench \in {call.fn = "ingest_zip" /\ PerfPaths(call.archive) # {}} :
         LET kind == IF is_bench THEN "benchmark" ELSE "coverage"
             objs == pending \cup {RunRow(0, call.label, kind)}
             e == FlushError(objs, flushed, committed, sess)
             c == [call EXCEPT !.is_bench = is_bench]
             classified == IF call.fn = "ingest_zip" THEN <<"classified">> ELSE <<>> IN
         IF e = "" THEN
             /\ flushed' = flushed \cup AssignIds(objs, nextId)
             /\ pending' = {} /\ nextId' = nextId + 1 /\ sess' = sess /\ hist' = hist
             /\ call' = [c EXCEPT !.run = nextId, !.phase = "run_flushed",
                                  !.path = @ \o classified]
         ELSE IF e = "IntegrityError" THEN
             /\ flushed' = {} /\ pending' = {} /\ sess' = "deactive" /\ nextId' = nextId
             /\ IngestRaise(c, e, classified \o <<"rolled_back">>)
         ELSE
             /\ pending' = objs /\ UNCHANGED <<flushed, sess, nextId>>
             /\ IngestRaise(c, e, classified)
    /\ UNCHANGED <<committed, scratch>>

\* The *.yaml loop: the number of EnvVar objects added, and the exception that
\* ends it.  A snapshot that does not parse or is no mapping is skipped; a
\* value without .get (or entries without it) raises AttributeError.
RECURSIVE EnvVarLoop(_)
EnvVarLoop(yamls) ==
    IF yamls = <<>> THEN [added |-> 0, cause |-> ""]
    ELSE LET y == Head(yamls) IN
         IF ~y.parses \/ ~y.is_mapping THEN EnvVarLoop(Tail(yamls))
         ELSE IF ~y.bundles_ok THEN [added |-> 0, cause |-> "AttributeError"]
         ELSE LET rest == EnvVarLoop(Tail(yamls)) IN
              [added |-> y.nvars + rest.added, cause |-> rest.cause]

\* lines 58-75: EnvVar rows from the configuration snapshots
IngestEnvVars ==
    /\ call.phase = "run_flushed" /\ call.fn = "ingest_zip"
    /\ \E yamls \in SeqsUpTo(YamlSnapshots, 0, MaxFiles) :
         LET r == EnvVarLoop(yamls) IN
         /\ pending' = pending \cup {EnvVarRow(call.run, k) : k \in 1..r.added}
         /\ IF r.cause = "" THEN call' = [call EXCEPT !.phase = "env_done"] /\ hist' = hist
            ELSE IngestRaise(call, r.cause, <<>>)
    /\ UNCHANGED <<committed, flushed, sess, nextId, scratch>>

\* The *_perf.json loop over perf, a sequence of files with their contents:
\* the records read, each with the stem of its file, and the exception of the
\* first file neither json.load nor jsonlines parses.
RECURSIVE BenchmarkLoop(_)
BenchmarkLoop(perf) ==
    IF perf = <<>> THEN [added |-> <<>>, cause |-> ""]
    ELSE LET f == Head(perf) IN
         IF ~f.content.parses THEN [added |-> <<>>, cause |-> "InvalidLineError"]
         ELSE LET rest == BenchmarkLoop(Tail(perf))
                  recs == [k \in 1..Len(f.content.recs) |->
                              [from |-> f.file.stem, rec |-> f.content.recs[k]]] IN
              [added |-> recs \o rest.added, cause |-> rest.cause]

\* The orders rglob may list the files of a set in.
OrdersOf(S) ==
    {o \in [1..Cardinality(S) -> S] : \A i, j \in 1..Cardinality(S) : i # j => o[i] # o[j]}

\* lines 77-105: the benchmark branch
IngestBenchmark(records) ==
    /\ call.phase = "env_done" /\ call.is_bench
    /\ \E order \in OrdersOf(PerfPaths(call.archive)) :
       \E contents \in [1..Len(order) -> PerfFiles(records)] :
         LET perf == [k \in 1..Len(order) |-> [file |-> order[k], content |-> contents[k]]]
             r == BenchmarkLoop(perf) IN
         /\ pending' = pending \cup
                {BenchmarkRecord(call.run, k, r.added[k].from, r.added[k].rec) :
                    k \in 1..Len(r.added)}
         /\ IF r.cause = ""
            THEN /\ call' = [call EXCEPT !.phase = "records_added",
                                         !.path = Append(@, "benchmark_ingested")]
                 /\ hist' = hist
            ELSE IngestRaise(call, r.cause, <<>>)
    /\ UNCHANGED <<committed, flushed, sess, nextId, scratch>>

\* The coverage loop: the number of CoverageRecord objects added, whether the
\* Run's totals were assigned, and the exception that ends it.
RECURSIVE CoverageLoop(_)
CoverageLoop(docs) ==
    IF docs = <<>> THEN [added |-> 0, totals |-> FALSE, cause |-> ""]
    ELSE LET d == Head(docs) IN
         IF ~d.parses THEN [added |-> 0, totals |-> FALSE, cause |-> "JSONDecodeError"]
         ELSE IF ~d.has_data THEN [added |-> 0, totals |-> FALSE, cause |-> "no_data"]
         ELSE IF ~d.has_totals THEN [added |-> d.nfiles, totals |-> FALSE, cause |-> "no_totals"]
         ELSE LET rest == CoverageLoop(Tail(docs)) IN
              [added |-> d.nfiles + rest.added, totals |-> TRUE, cause |-> rest.cause]

\* lines 106-171 (and 183-243): the coverage branch
IngestCoverage ==
    /\ \/ call.fn = "ingest_zip" /\ call.phase = "env_done" /\ ~call.is_bench
       \/ call.fn = "ingest_coverage_json" /\ call.phase = "run_flushed"
    /\ \E docs \in (IF call.fn = "ingest_zip"
                   THEN [1..Cardinality(call.archive) -> CoverageDocs]
                   ELSE SeqsUpTo(CoverageDocs, 1, 1)) :
         LET r == CoverageLoop(docs)
             fatal == r.cause \in {"no_data", "no_totals"} IN
         /\ pending' = pending \cup {CoverageRecord(call.run, k) : k \in 1..r.added}
         /\ flushed' = {IF x.tbl = "runs" /\ x.run = call.run /\ r.totals
                        THEN [x EXCEPT !.totals = TRUE] ELSE x : x \in flushed}
         /\ IF r.cause = ""
            THEN /\ call' = [call EXCEPT !.phase = "records_added",
                                         !.path = Append(@, "coverage_ingested")]
                 /\ hist' = hist
            ELSE IngestRaise(call, IF fatal THEN "ValueError_" \o r.cause ELSE r.cause,
                             IF fatal THEN <<"coverage_fatal_error">> ELSE <<>>)
    /\ UNCHANGED <<committed, sess, nextId, scratch>>

\* line 173 (and 245): session.commit()
Commit ==
    /\ call.phase = "records_added"
    /\ LET e == FlushError(pending, flushed, committed, sess) IN
       IF e = "" THEN
           /\ committed' = committed \cup flushed \cup pending
           /\ flushed' = {} /\ pending' = {} /\ sess' = sess
           /\ IF call.fn = "ingest_zip"
              THEN /\ call' = [call EXCEPT !.phase = "committed",
                                           !.path = Append(@, "committed")]
                   /\ hist' = hist
              ELSE /\ call' = [call EXCEPT !.phase = "returned"]
                   /\ hist' = Append(hist, Ended(call, "returned"))
       ELSE
           /\ flushed' = {} /\ pending' = {} /\ sess' = "deactive"
           /\ committed' = committed
           /\ IngestRaise(call, e, <<"rolled_back">>)
    /\ UNCHANGED <<nextId, scratch>>

\* line 174: tmp.cleanup(), and ingest_zip returns
Cleanup ==
    /\ call.phase = "committed"
    /\ scratch' = scratch \ {call.n}
    /\ call' = [call EXCEPT !.phase = "returned", !.path = Append(@, "scratch_released")]
    /\ hist' = Append(hist, Ended(call, "returned"))
    /\ UNCHANGED <<committed, flushed, pending, sess, nextId>>

\* line 20: tmp is a local of a call that has ended; once the interpreter
\* drops the frame (and the exception holding it) the TemporaryDirectory's
\* finalizer removes the directory.  When that happens is the interpreter's.
ImplicitCleanup ==
    /\ \E n \in scratch :
         /\ n # call.n \/ call.phase = "raised"
         /\ scratch' = scratch \ {n}
    /\ UNCHANGED <<committed, flushed, pending, sess, nextId, call, hist>>

\* session.delete(run); session.commit() on a stored Run: the cascades of
\* models.py:32-47 delete the rows the Run owns with it.
DeleteRun(id) ==
    /\ NoCallRunning
    /\ id \in {r.run : r \in RunsOf(committed)}
    /\ LET e == FlushError(pending, flushed, committed, sess)
           all == committed \cup flushed \cup pending
           c == [NoCall EXCEPT !.fn = "delete_run", !.run = id,
                               !.owned = Cardinality(OwnedRows(all, id))] IN
       IF e = "" THEN
           /\ committed' = all \ ({r \in RunsOf(all) : r.run = id} \cup OwnedRows(all, id))
           /\ flushed' = {} /\ pending' = {} /\ sess' = sess
           /\ call' = [c EXCEPT !.phase = "returned"]
       ELSE IF e = "IntegrityError" THEN
           /\ flushed' = {} /\ pending' = {} /\ sess' = "deactive"
           /\ committed' = committed
           /\ call' = [c EXCEPT !.phase = "raised", !.cause = e]
       ELSE
           /\ UNCHANGED <<committed, flushed, pending, sess>>
           /\ call' = [c EXCEPT !.phase = "raised", !.cause = e]
    /\ UNCHANGED <<nextId, hist, scratch>>

(***************************************************************************)
(* JSON text.  A content is the sequence of its lines and a line the       *)
(* sequence of its tokens: "[", "]", ",", the number "5", "null", a        *)
(* complete object "{A}" or "{B}" (a record), or "#", text that is no      *)
(* JSON.  A line without tokens is blank.                                  *)
(***************************************************************************)
ObjectTokens == {"{A}", "{B}"}

JVal(kind, v, items) == [kind |-> kind, v |-> v, items |-> items]

JNone == JVal("null", "", <<>>)

JFail == [ok |-> FALSE, val |-> JNone, next |-> 0]

\* The JSON value that starts at token i of t, and the position after it.
RECURSIVE ParseValue(_, _)
RECURSIVE ParseItems(_, _, _)
ParseValue(t, i) ==
    IF i > Len(t) THEN JFail
    ELSE IF t[i] \in ObjectTokens
    THEN [ok |-> TRUE, val |-> JVal("object", t[i], <<>>), next |-> i + 1]
    ELSE IF t[i] = "5"
    THEN [ok |-> TRUE, val |-> JVal("number", t[i], <<>>), next |-> i + 1]
    ELSE IF t[i] = "null"
    THEN [ok |-> TRUE, val |-> JNone, next |-> i + 1]
    ELSE IF t[i] = "["
    THEN IF i + 1 <= Len(t) /\ t[i + 1] = "]"
         THEN [ok |-> TRUE, val |-> JVal("list", "", <<>>), next |-> i + 2]
         ELSE ParseItems(t, i + 1, <<>>)
    ELSE JFail

\* The items of a list from token i on, after the items acc.
ParseItems(t, i, acc) ==
    LET e == ParseValue(t, i) IN
    IF ~e.ok \/ e.next > Len(t) THEN JFail
    ELSE IF t[e.next] = "]"
    THEN [ok |-> TRUE, val |-> JVal("list", "", Append(acc, e.val)), next |-> e.next + 1]
    ELSE IF t[e.next] = ","
    THEN ParseItems(t, e.next + 1, Append(acc, e.val))
    ELSE JFail

\* json.loads of a text: one JSON value and nothing else but white space.
JsonLoads(t) ==
    LET e == ParseValue(t, 1) IN
    IF e.ok /\ e.next = Len(t) + 1 THEN [ok |-> TRUE, val |-> e.val]
    ELSE [ok |-> FALSE, val |-> JNone]

\* The whole content as one text: line ends are white space.
RECURSIVE Flatten(_)
Flatten(lines) == IF lines = <<>> THEN <<>> ELSE Head(lines) \o Flatten(Tail(lines))

(***************************************************************************)
(* utils.py, output_parser.py                                              *)
(***************************************************************************)
Returned(recs) == [raised |-> "", records |-> recs]

Raised(e) == [raised |-> e, records |-> <<>>]

\* list(jsonlines.Reader(buf)): every line is read with json.loads; a line
\* that is no JSON (a blank line too) or that holds null raises
\* InvalidLineError, since neither skip_invalid nor skip_empty nor allow_none
\* is asked for.
RECURSIVE JsonlinesReader(_)
JsonlinesReader(lines) ==
    IF lines = <<>> THEN Returned(<<>>)
    ELSE LET v == JsonLoads(Head(lines)) IN
         IF ~v.ok \/ v.val.kind = "null" THEN Raised("InvalidLineError")
         ELSE LET rest == JsonlinesReader(Tail(lines)) IN
              IF rest.raised # "" THEN rest
              ELSE Returned(<<v.val>> \o rest.records)

\* utils.py:5-20
ReadJsonRecords(lines) ==
    LET data == JsonLoads(Flatten(lines)) IN
    IF ~data.ok THEN JsonlinesReader(lines)
    ELSE IF data.val.kind = "object" THEN Returned(<<data.val>>)
    ELSE IF data.val.kind = "list" THEN Returned(data.val.items)
    ELSE Returned(<<>>)

\* output_parser.py:5-15: every line that json.loads reads is appended,
\* whatever its value; the others are skipped.
RECURSIVE ParseOutputJson(_)
ParseOutputJson(lines) ==
    IF lines = <<>> THEN Returned(<<>>)
    ELSE LET v == JsonLoads(Head(lines))
             rest == ParseOutputJson(Tail(lines)) IN
         IF v.ok THEN Returned(<<v.val>> \o rest.records) ELSE rest

\* ingest.py:79-87: json.load of the file; a list as it is, any other value
\* as a list of one; the lines by jsonlines when the file is no JSON value.
IngestInline(lines) ==
    LET data == JsonLoads(Flatten(lines)) IN
    IF ~data.ok THEN JsonlinesReader(lines)
    ELSE IF data.val.kind = "list" THEN Returned(data.val.items)
    ELSE Returned(<<data.val>>)

(***************************************************************************)
(* Inputs of the parsers: records written in one of the encodings, and     *)
(* contents of any lines.                                                  *)
(***************************************************************************)
MaxRecords == 3
MaxLines == 3

\* One object; an array on one line; an array with a line per bracket and
\* per item; one object per line.
RECURSIVE ArrayTokens(_)
ArrayTokens(recs) ==
    IF Len(recs) = 1 THEN <<recs[1]>>
    ELSE <<recs[1], ",">> \o ArrayTokens(Tail(recs))

Encode(enc, recs) ==
    IF enc = "object" THEN <<<<recs[1]>>>>
    ELSE IF enc = "array" THEN <<<<"[">> \o ArrayTokens(recs) \o <<"]">>>>
    ELSE IF enc = "array_lines"
    THEN <<<<"[">>>>
         \o [k \in 1..Len(recs) |->
                IF k < Len(recs) THEN <<recs[k], ",">> ELSE <<recs[k]>>]
         \o <<<<"]">>>>
    ELSE [k \in 1..Len(recs) |-> <<recs[k]>>]

Encodings ==
    {[enc |-> e, recs |-> r] :
        e \in {"array", "array_lines", "lines"},
        r \in SeqsUpTo(ObjectTokens, 1, MaxRecords)}
    \cup {[enc |-> "object", recs |-> r] : r \in SeqsUpTo(ObjectTokens, 1, 1)}

LineKinds == {<<"{A}">>, <<"{B}">>, <<>>, <<"#">>, <<"5">>, <<"null">>}

NotEncoded == [enc |-> "", recs |-> <<>>]

NotParsed == [fn |-> "", raised |-> "", records |-> <<>>]

Applied(fn, r) == [fn |-> fn, raised |-> r.raised, records |-> r.records]

CallReadJsonRecords ==
    /\ parsed = NotParsed
    /\ parsed' = Applied("read_json_records", ReadJsonRecords(json_bytes))
    /\ UNCHANGED <<encoded, json_bytes>>

CallParseOutputJson ==
    /\ parsed = NotParsed
    /\ parsed' = Applied("parse_output_json", ParseOutputJson(json_bytes))
    /\ UNCHANGED <<encoded, json_bytes>>

CallIngestInline ==
    /\ parsed = NotParsed
    /\ parsed' = Applied("ingest_zip", IngestInline(json_bytes))
    /\ UNCHANGED <<encoded, json_bytes>>

ParseIdle == encoded = NotEncoded /\ json_bytes = <<>> /\ parsed = NotParsed

(***************************************************************************)
(* stats.py.  A record has the four grouping columns, of which redop may   *)
(* hold null, and the three metrics.  A mean is kept exact, as the sum of  *)
(* the values over their number.                                           *)
(***************************************************************************)
MaxResults == 3

Metrics ==
    {[time |-> 1, algBw |-> 4, busBw |-> 6], [time |-> 3, algBw |-> 2, busBw |-> 6]}

ResultRecords ==
    {[type |-> "float", redop |-> ro, size |-> sz, inPlace |-> 0,
      time |-> mt.time, algBw |-> mt.algBw, busBw |-> mt.busBw] :
        ro \in {"sum", JsonNull}, sz \in {8, 16}, mt \in Metrics}

\* The values of the columns df.groupby groups by (stats.py:11).
GroupKey(rec) == <<rec.type, rec.redop, rec.size, rec.inPlace>>

RECURSIVE Total(_)
Total(xs) == IF xs = <<>> THEN 0 ELSE Head(xs) + Total(Tail(xs))

\* The "mean" aggregation of a column
Mean(xs) == [sum |-> Total(xs), count |-> Len(xs)]

\* groupby's default dropna=True: a row with a null in a grouping column is
\* in no group.
InSomeGroup(rec) == rec.redop # JsonNull

NotSummarized == [done |-> FALSE, groups |-> {}]

\* stats.py:5-17: the rows of the returned frame
SummarizeResults(recs) ==
    IF recs = <<>> THEN [done |-> TRUE, groups |-> {}]
    ELSE LET grouped == SelectSeq(recs, InSomeGroup)
             keys == {GroupKey(grouped[i]) : i \in 1..Len(grouped)}
             Col(k, c) ==
                 LET InGroup(rec) == GroupKey(rec) = k
                     g == SelectSeq(grouped, InGroup) IN
                 [i \in 1..Len(g) |-> g[i][c]] IN
         [done |-> TRUE,
          groups |-> {[key |-> k,
                       time_avg |-> Mean(Col(k, "time")),
                       algBw_avg |-> Mean(Col(k, "algBw")),
                       busBw_avg |-> Mean(Col(k, "busBw"))] : k \in keys}]

CallSummarizeResults ==
    /\ ~summary.done
    /\ summary' = SummarizeResults(results)
    /\ UNCHANGED results

StatsIdle == results = <<>> /\ summary = NotSummarized

(***************************************************************************)
(* dashboard_json.py: unify_env_vars.  A row's env_dict gives each name of *)
(* EnvNames its value, or Absent when the dict has no such key; a bundle   *)
(* string is the sequence of its pieces.                                   *)
(***************************************************************************)
MaxRows == 3

\* The names, in the order sorted() puts them.
NameOrder == <<"A", "B">>

EnvNames == Range(NameOrder)

EnvDicts == [EnvNames -> {Absent, "0", "1"}]

Keys(envd) == {name \in EnvNames : envd[name] # Absent}

\* sorted(names)
Sorted(names) ==
    LET Member(name) == name \in names IN SelectSeq(NameOrder, Member)

\* ", ".join(parts)
RECURSIVE Join(_)
Join(parts) ==
    IF parts = <<>> THEN <<>>
    ELSE IF Len(parts) = 1 THEN parts[1]
    ELSE parts[1] \o <<", ">> \o Join(Tail(parts))

\* lines 100-104: f"{env_name}={val}"
Part(envd, env_name) ==
    LET got == IF envd[env_name] = Absent THEN "unset" ELSE envd[env_name]
        val == IF got = "0" THEN "unset" ELSE got IN
    <<env_name, "=", val>>

\* unify_env_vars that lists the names of the row's own env_dict.
UnifyEnvVars_OwnNames(rows) ==
    [i \in 1..Len(rows) |->
        LET sorted_envs == Sorted(Keys(rows[i])) IN
        Join([k \in 1..Len(sorted_envs) |-> Part(rows[i], sorted_envs[k])])]

\* dashboard_json.py:91-108: the env_bundle column
UnifyEnvVars(rows) ==
    LET all_env_names == UNION {Keys(rows[i]) : i \in 1..Len(rows)}
        sorted_envs == Sorted(all_env_names) IN
    [i \in 1..Len(rows) |->
        Join([k \in 1..Len(sorted_envs) |-> Part(rows[i], sorted_envs[k])])]

NotUnified == [done |-> FALSE, column |-> <<>>]

CallUnifyEnvVars ==
    /\ ~env_bundles.done
    /\ env_bundles' = [done |-> TRUE, column |-> UnifyEnvVars(df)]
    /\ UNCHANGED df

UnifyIdle == df = <<>> /\ env_bundles = NotUnified

AnalysisIdle == ParseIdle /\ StatsIdle /\ UnifyIdle /\ BuildIdle

(***************************************************************************)
(* Specifications                                                          *)
(***************************************************************************)
IngestIdle ==
    /\ committed = {} /\ flushed = {} /\ pending = {} /\ sess = "active"
    /\ nextId = 1 /\ call = NoCall /\ hist = <<>> /\ scratch = {}

SweepIdle ==
    /\ raw_config = <<>> /\ pc = "next_test" /\ ti = 1 /\ test_cfg = NoCfg
    /\ ci = 1 /\ launched = <<>> /\ files = <<>> /\ failed = {} /\ err = NoErr

InitSweep ==
    /\ raw_config \in Configs
    /\ pc = "next_test" /\ ti = 1 /\ test_cfg = NoCfg /\ ci = 1
    /\ launched = [i \in 1..Len(raw_config) |-> [c \in VALID_COLLECTIVES |-> 0]]
    /\ files = [i \in 1..Len(raw_config) |-> {}]
    /\ failed = {}
    /\ err = NoErr
    /\ IngestIdle /\ AnalysisIdle

NextSweep ==
    \/ BeginTest /\ UNCHANGED <<ingestVars, analysisVars>>
    \/ LaunchCollective /\ UNCHANGED <<ingestVars, analysisVars>>
    \/ ParseResult /\ UNCHANGED <<ingestVars, analysisVars>>
    \/ Return /\ UNCHANGED <<ingestVars, analysisVars>>

SpecSweep == InitSweep /\ [][NextSweep]_vars

InitIngest == IngestIdle /\ SweepIdle /\ AnalysisIdle

\* Successive ingestions and deletions on one session, of archives with a
\* result file or a coverage file at the top level.
SessionFiles == {f \in ArchiveFiles : f.depth = 1}

SessionRecords == {FullRecord, NamelessRecord}

NextIngest ==
    \/ BeginIngestZip(SessionFiles, MaxCalls) /\ UNCHANGED <<sweepVars, analysisVars>>
    \/ BeginIngestCoverageJson /\ UNCHANGED <<sweepVars, analysisVars>>
    \/ CreateRun /\ UNCHANGED <<sweepVars, analysisVars>>
    \/ IngestEnvVars /\ UNCHANGED <<sweepVars, analysisVars>>
    \/ IngestBenchmark(SessionRecords) /\ UNCHANGED <<sweepVars, analysisVars>>
    \/ IngestCoverage /\ UNCHANGED <<sweepVars, analysisVars>>
    \/ Commit /\ UNCHANGED <<sweepVars, analysisVars>>
    \/ Cleanup /\ UNCHANGED <<sweepVars, analysisVars>>
    \/ ImplicitCleanup /\ UNCHANGED <<sweepVars, analysisVars>>
    \/ \E id \in 1..MaxCalls : DeleteRun(id) /\ UNCHANGED <<sweepVars, analysisVars>>

SpecIngest == InitIngest /\ [][NextIngest]_vars

\* One ingest_zip on a fresh session, of every archive and every record.
NextArchive ==
    \/ BeginIngestZip(ArchiveFiles, 1) /\ UNCHANGED <<sweepVars, analysisVars>>
    \/ CreateRun /\ UNCHANGED <<sweepVars, analysisVars>>
    \/ IngestEnvVars /\ UNCHANGED <<sweepVars, analysisVars>>
    \/ IngestBenchmark(TypicalRecords) /\ UNCHANGED <<sweepVars, analysisVars>>
    \/ IngestCoverage /\ UNCHANGED <<sweepVars, analysisVars>>
    \/ Commit /\ UNCHANGED <<sweepVars, analysisVars>>
    \/ Cleanup /\ UNCHANGED <<sweepVars, analysisVars>>
    \/ ImplicitCleanup /\ UNCHANGED <<sweepVars, analysisVars>>

SpecArchive == InitIngest /\ [][NextArchive]_vars

\* A parser applied to one content.
InitParse ==
    /\ \/ encoded \in Encodings /\ json_bytes = Encode(encoded.enc, encoded.recs)
       \/ encoded = NotEncoded /\ json_bytes \in SeqsUpTo(LineKinds, 0, MaxLines)
    /\ parsed = NotParsed
    /\ SweepIdle /\ IngestIdle /\ StatsIdle /\ UnifyIdle /\ BuildIdle

NextParse ==
    \/ CallReadJsonRecords /\ UNCHANGED <<sweepVars, ingestVars, statsVars, unifyVars, buildVars>>
    \/ CallParseOutputJson /\ UNCHANGED <<sweepVars, ingestVars, statsVars, unifyVars, buildVars>>
    \/ CallIngestInline /\ UNCHANGED <<sweepVars, ingestVars, statsVars, unifyVars, buildVars>>

SpecParse == InitParse /\ [][NextParse]_vars

\* summarize_results applied to one list of records.
InitStats ==
    /\ results \in SeqsUpTo(ResultRecords, 0, MaxResults)
    /\ summary = NotSummarized
    /\ SweepIdle /\ IngestIdle /\ ParseIdle /\ UnifyIdle /\ BuildIdle

NextStats ==
    CallSummarizeResults /\ UNCHANGED <<sweepVars, ingestVars, parseVars, unifyVars, buildVars>>

SpecStats == InitStats /\ [][NextStats]_vars

\* unify_env_vars applied to one frame.
InitUnify ==
    /\ df \in SeqsUpTo(EnvDicts, 0, MaxRows)
    /\ env_bundles = NotUnified
    /\ SweepIdle /\ IngestIdle /\ ParseIdle /\ StatsIdle /\ BuildIdle

NextUnify ==
    CallUnifyEnvVars /\ UNCHANGED <<sweepVars, ingestVars, parseVars, statsVars, buildVars>>

SpecUnify == InitUnify /\ [][NextUnify]_vars

\* One test dict, written or generated, built and run.
InitBuild ==
    /\ test_dict \in WrittenDicts \cup final_configs
    /\ config = NotConstructed /\ environ = <<>> /\ commands = <<>>
    /\ SweepIdle /\ IngestIdle /\ ParseIdle /\ StatsIdle /\ UnifyIdle

NextBuild ==
    \/ Construct /\ UNCHANGED <<sweepVars, ingestVars, parseVars, statsVars, unifyVars>>
    \/ AssignStepDetail /\ UNCHANGED <<sweepVars, ingestVars, parseVars, statsVars, unifyVars>>
    \/ SetEnviron /\ UNCHANGED <<sweepVars, ingestVars, parseVars, statsVars, unifyVars>>
    \/ CallRunExecutable /\ UNCHANGED <<sweepVars, ingestVars, parseVars, statsVars, unifyVars>>

SpecBuild == InitBuild /\ [][NextBuild]_vars

(***************************************************************************)
(* The sweep's claims                                                      *)
(***************************************************************************)
Count(s, c) == Cardinality({i \in 1..Len(s) : s[i] = c})

\* A definition from_dict accepts and that names at least one collective (an
\* empty list passes from_dict too, and line 38 then fails on collectives[0]).
ValidDefinition(d) == FromDict(d).err = "" /\ d.collectives # <<>>

\* The launch loop of entry i has run to its end.
LaunchLoopDone(i) == i < ti \/ (i = ti /\ pc = "parse")

\* C1: within one sweep every collective of the definition has its invocation
\* launched whatever the earlier invocations did: no exit status and no launch
\* error leaves run_executable, after k steps of the loop the first k
\* collectives have been launched, and at the end of the loop each collective
\* has been launched as often as the definition lists it.
C1_EveryCollectiveLaunched ==
    /\ err.site # "run_executable"
    /\ pc = "launch" =>
          \A c \in VALID_COLLECTIVES :
              launched[ti][c] = Count(SubSeq(test_cfg.collectives, 1, ci - 1), c)
    /\ pc = "parse" =>
          \A c \in VALID_COLLECTIVES :
              launched[ti][c] = Count(test_cfg.collectives, c)

\* C1's case: the first collective's invocation failed and the loop went on
\* to launch the last one.
C1_Witness ==
    /\ pc = "parse" /\ Len(test_cfg.collectives) >= 2
    /\ test_cfg.collectives[1] \in failed
    /\ test_cfg.collectives[1] \notin files[ti]
    /\ launched[ti][test_cfg.collectives[Len(test_cfg.collectives)]] = 1

\* C2: the sweep always completes: over a mapping of valid definitions
\* run_tests never ends with an error, whatever the invocations did.
C2_SweepNeverRaises ==
    (\A i \in 1..Len(raw_config) : ValidDefinition(raw_config[i])) => pc # "raised"

\* Entry i of the mapping has had its collectives invoked.
Invoked(i) ==
    LET cs == raw_config[i].collectives IN
    IF cs[1] = "all" THEN \A c \in RealCollectives : launched[i][c] >= 1
    ELSE \A c \in Range(cs) : launched[i][c] >= 1

\* C3: a malformed definition is fatal to that test only: when an entry has
\* failed validation in run_tests, every other, valid entry of the mapping
\* has its collectives invoked.
C3_OtherEntriesStillRun ==
    err.site = "from_dict" =>
        \A i \in 1..Len(raw_config) :
            (i # ti /\ ValidDefinition(raw_config[i])) => Invoked(i)

\* C4: for a definition whose collective list is the sentinel "all", no
\* invocation is launched for "all" itself, and when the launch loop is done
\* exactly one invocation was launched per real collective.
C4_AllExpandsToRealCollectives ==
    \A i \in 1..Len(raw_config) :
        (raw_config[i].collectives = <<"all">> /\ ValidDefinition(raw_config[i])) =>
            /\ launched[i]["all"] = 0
            /\ LaunchLoopDone(i) => \A c \in RealCollectives : launched[i][c] = 1

(***************************************************************************)
(* The ingestion's claims                                                  *)
(***************************************************************************)
AllRows == committed \cup flushed \cup pending

CallEnded == call.phase \in {"returned", "raised"}

\* C5: when ingest_zip has failed because a coverage JSON lacks the data
\* array or the totals block, neither the store nor the session's flushed and
\* pending state holds a Run, CoverageRecord or EnvVar row of that archive.
C5_FatalCoverageRolledBack ==
    (/\ call.fn = "ingest_zip" /\ call.phase = "raised"
     /\ call.cause \in {"ValueError_no_data", "ValueError_no_totals"})
        => \A r \in AllRows : r.run # call.run

\* The Runs of the ingestions that returned (ingest_zip has succeeded once it
\* is past its commit).
SucceededRuns ==
    {hist[i].run : i \in {k \in DOMAIN hist : hist[k].outcome = "returned"}}
    \cup (IF call.phase = "committed" THEN {call.run} ELSE {})

\* C6: ingestions are isolated from each other: after any sequence of
\* ingest_zip calls on the session, the committed store holds Run, record and
\* EnvVar rows only of the archives whose ingestion returned successfully.
C6_OnlySuccessfulIngestionsCommitted ==
    (/\ \A i \in DOMAIN hist : hist[i].fn = "ingest_zip"
     /\ call.fn \in {"", "ingest_zip"})
        => \A r \in committed : r.run \in SucceededRuns

\* C7: the scratch directory of an ingest_zip call is released by that call
\* on every exit path: once the call has returned or raised, the directory it
\* created is gone.
C7_ScratchReleasedOnExit ==
    (call.fn = "ingest_zip" /\ CallEnded) => call.n \notin scratch

MachinePaths ==
    {<<"unpacked", "classified", x, t, "scratch_released">> :
        x \in {"benchmark_ingested", "coverage_ingested", "coverage_fatal_error"},
        t \in {"committed", "rolled_back"}}
    \ {<<"unpacked", "classified", "coverage_fatal_error", "committed", "scratch_released">>}

IsPrefix(s, t) == Len(s) <= Len(t) /\ s = SubSeq(t, 1, Len(s))

ReachedIngestion ==
    /\ Len(call.path) >= 3
    /\ call.path[3] \in {"benchmark_ingested", "coverage_ingested", "coverage_fatal_error"}

\* C8: an archive's ingestion goes through unpacked, classified, then
\* benchmark-ingested, coverage-ingested or coverage-fatal-error, then
\* committed or rolled back, then scratch-released, in this order; one that
\* got as far as its records ends after all five, with no row of its own left
\* flushed or pending.
C8_ArchiveStateMachine ==
    call.fn = "ingest_zip" =>
        /\ ~CallEnded => \E m \in MachinePaths : IsPrefix(call.path, m)
        /\ (CallEnded /\ ReachedIngestion) =>
              /\ call.path \in MachinePaths
              /\ \A r \in flushed \cup pending : r.run # call.run

C9_UniqueLabels ==
    \A r1 \in RunsOf(committed \cup flushed), r2 \in RunsOf(committed \cup flushed) :
        r1.label = r2.label => r1 = r2

\* A step of an ingestion whose label is that of a Run already in the store.
C9_NoEffectOfDuplicate ==
    (call'.fn \in {"ingest_zip", "ingest_coverage_json"} /\ call'.dup) =>
        /\ call'.phase \in {"start", "raised"}
        /\ committed' = committed
        /\ flushed' \subseteq flushed

\* C9: run labels are unique: no two Run rows of the store have the same
\* label, and an ingestion whose label is that of a stored Run fails, adds no
\* row and leaves the stored rows as they were.
C9_RunLabelsUnique == []C9_UniqueLabels /\ [][C9_NoEffectOfDuplicate]_vars

\* C9's case: a Run is stored and an ingestion with its label has failed on
\* the unique constraint.
C9_Witness ==
    /\ call.fn \in {"ingest_zip", "ingest_coverage_json"} /\ call.dup
    /\ call.phase = "raised" /\ call.cause = "IntegrityError"
    /\ call.label \in LabelsOf(committed)

\* C10: deleting a Run deletes every row it owns and nothing else: after the
\* delete no row carries the Run's id, and the rows of the other Runs are the
\* ones there were.
C10_DeleteCascades ==
    [][(call' # call /\ call'.fn = "delete_run" /\ call'.phase = "returned") =>
          /\ \A r \in AllRows' : r.run # call'.run
          /\ AllRows' = {r \in AllRows : r.run # call'.run}]_vars

\* C10's case: a Run that owned rows has been deleted and another Run's rows
\* are still stored.
C10_Witness ==
    /\ call.fn = "delete_run" /\ call.phase = "returned" /\ call.owned >= 2
    /\ \E r \in committed : r.tbl = "env_vars" /\ r.run \in SucceededRuns
    /\ \E r \in committed : r.tbl = "runs" /\ r.run \in SucceededRuns

(***************************************************************************)
(* The claims about one archive                                            *)
(***************************************************************************)
BenchmarkRows(rows) == {r \in rows : r.tbl = "benchmark_records"}

\* C11: ingest_zip classifies an archive as benchmark exactly when one of its
\* files, at any depth, is named *_perf.json, and as coverage otherwise, and
\* the Run it creates has that measurement kind.
C11_ClassifiedByPerfFiles ==
    (call.fn = "ingest_zip" /\ call.run # 0) =>
        LET has_perf == \E f \in call.archive : f.tail = "_perf.json" IN
        /\ call.is_bench <=> has_perf
        /\ \A r \in RunsOf(AllRows) :
              r.run = call.run =>
                  r.kind = IF has_perf THEN "benchmark" ELSE "coverage"

\* The Run of an archive whose only result file lies three directories deep,
\* next to a file that is no result file, is committed.
C11_Witness ==
    /\ call.fn = "ingest_zip" /\ call.phase = "returned"
    /\ \E f \in call.archive : f.tail = "_perf.json"
    /\ \A f \in call.archive : f.tail = "_perf.json" => f.depth > 1
    /\ \E f \in call.archive : f.tail # "_perf.json"
    /\ \E r \in RunsOf(committed) : r.run = call.run /\ r.kind = "benchmark"

\* C12: every row of benchmark_records carries the collective named by the
\* result file it was read from, whatever the record holds.
C12_CollectiveFromFileName ==
    \A r \in BenchmarkRows(AllRows) : r.cols.collective = r.src.file

\* C13: a persisted record without redop (absent or null) has redop
\* "no_reduction", and one without wrong has wrong "0".
C13_DefaultsOfMissingFields ==
    \A r \in BenchmarkRows(committed) :
        /\ r.src.rec.redop \in {Absent, JsonNull} => r.cols.redop = "no_reduction"
        /\ r.src.rec.wrong = Absent => r.cols.wrong = "0"

\* C14: a persisted record without inPlace has an in_place that is neither
\* true nor false.
C14_InPlaceTriState ==
    \A r \in BenchmarkRows(committed) :
        r.src.rec.inPlace = Absent => r.cols.in_place \notin {"true", "false"}

\* C15: the recovery of EnvVar rows never ends an ingestion: no ingest_zip
\* ends with the AttributeError of the snapshot loop (ingest.py:67-68), the
\* only place that raises it.
C15_EnvVarRecoveryNeverFails ==
    ~(call.fn = "ingest_zip" /\ call.phase = "raised" /\ call.cause = "AttributeError")

(***************************************************************************)
(* The parsers' claims                                                     *)
(***************************************************************************)
ObjectsOf(recs) == [k \in 1..Len(recs) |-> JVal("object", recs[k], <<>>)]

\* C16: a result parser gives the same flat sequence for the encodings of the
\* same records: N >= 1 objects written as an array, written one per line, or
\* (N = 1) written alone, all parse to the sequence of the N records.
C16_SameRecordsInEveryEncoding ==
    (parsed.fn # "" /\ encoded # NotEncoded) =>
        /\ parsed.raised = ""
        /\ parsed.records = ObjectsOf(encoded.recs)

\* The content has one malformed line and, but for it, one or more lines of
\* one object.
OneMalformedLine(lines) ==
    /\ Len(lines) >= 2
    /\ Cardinality({k \in 1..Len(lines) : lines[k] = <<"#">>}) = 1
    /\ \A k \in 1..Len(lines) : lines[k] = <<"#">> \/ lines[k] \in {<<o>> : o \in ObjectTokens}

RECURSIVE WellFormedObjects(_)
WellFormedObjects(lines) ==
    IF lines = <<>> THEN <<>>
    ELSE IF Head(lines) = <<"#">> THEN WellFormedObjects(Tail(lines))
    ELSE <<JVal("object", Head(lines)[1], <<>>)>> \o WellFormedObjects(Tail(lines))

\* C17: for N well-formed record lines and one malformed line, wherever it
\* is, a result parser returns the N records in order and raises nothing.
C17_MalformedLineSkipped ==
    (parsed.fn # "" /\ OneMalformedLine(json_bytes)) =>
        /\ parsed.raised = ""
        /\ parsed.records = WellFormedObjects(json_bytes)

\* C18: read_json_records never raises, whatever the content, and returns the
\* empty sequence when no strategy yields a record.
C18_ParserTotal ==
    parsed.fn = "read_json_records" => parsed.raised = ""

(***************************************************************************)
(* The claims about the summary and the bundles                            *)
(***************************************************************************)
RowsWithKey(k) == {i \in 1..Len(results) : GroupKey(results[i]) = k}

RECURSIVE SumOver(_, _)
SumOver(S, c) ==
    IF S = {} THEN 0
    ELSE LET i == CHOOSE j \in S : TRUE IN results[i][c] + SumOver(S \ {i}, c)

\* C19: summarize_results returns nothing for no record; otherwise one group
\* for each (type, redop, size, inPlace) among the records, null redop
\* included, no group without records, and in each group the mean of time,
\* algBw and busBw over the records with that tuple.
C19_OneGroupPerTuple ==
    summary.done =>
        /\ results = <<>> => summary.groups = {}
        /\ {g.key : g \in summary.groups} = {GroupKey(results[i]) : i \in 1..Len(results)}
        /\ \A g, h \in summary.groups : g.key = h.key => g = h
        /\ \A g \in summary.groups :
              LET S == RowsWithKey(g.key) IN
              /\ S # {}
              /\ g.time_avg.count > 0
              /\ g.time_avg.sum * Cardinality(S) = SumOver(S, "time") * g.time_avg.count
              /\ g.algBw_avg.sum * Cardinality(S) = SumOver(S, "algBw") * g.algBw_avg.count
              /\ g.busBw_avg.sum * Cardinality(S) = SumOver(S, "busBw") * g.busBw_avg.count

\* What a bundle string shows for a name: the row's value, "unset" for none or "0".
Shown(envd, name) == IF envd[name] \in {Absent, "0"} THEN "unset" ELSE envd[name]

Position(name) == CHOOSE k \in 1..Len(NameOrder) : NameOrder[k] = name

\* The frame with its rows in the order perm, and the rows' places in it.
Permuted(rows, perm) == [k \in 1..Len(rows) |-> rows[perm[k]]]

RowOrders(n) == {f \in [1..n -> 1..n] : \A i, j \in 1..n : i # j => f[i] # f[j]}

\* C20: every row's bundle string lists the names of the union over all rows,
\* in sorted order, as name=value joined by ", ", the value being the row's
\* own or "unset" when the row lacks the name or has it "0"; {A=1} and {}
\* give "A=1" and "A=unset"; a row's string is the same in every order of
\* the rows.
C20_BundleListsUnionSorted ==
    env_bundles.done =>
        LET union == UNION {Keys(df[i]) : i \in 1..Len(df)}
            n == Cardinality(union) IN
        /\ Len(env_bundles.column) = Len(df)
        /\ \A i \in 1..Len(df) :
              LET b == env_bundles.column[i] IN
              /\ Len(b) = IF n = 0 THEN 0 ELSE 4 * n - 1
              /\ {b[4 * k - 3] : k \in 1..n} = union
              /\ \A k \in 1..n :
                    /\ b[4 * k - 2] = "="
                    /\ b[4 * k - 1] = Shown(df[i], b[4 * k - 3])
                    /\ k < n => /\ b[4 * k] = ", "
                                 /\ Position(b[4 * k - 3]) < Position(b[4 * k + 1])
        /\ \A i \in 1..Len(df) :
              (Keys(df[i]) = {"A"} /\ df[i]["A"] = "1" /\ union = {"A"})
                  => env_bundles.column[i] = <<"A", "=", "1">>
        /\ \A i \in 1..Len(df) :
              (Keys(df[i]) = {} /\ union = {"A"})
                  => env_bundles.column[i] = <<"A", "=", "unset">>
        /\ \A perm \in RowOrders(Len(df)) :
              \A k \in 1..Len(df) :
                  UnifyEnvVars(Permuted(df, perm))[k] = env_bundles.column[perm[k]]

\* The frame of the rows {A=1} and {} was unified.
C20_Witness ==
    /\ env_bundles.done /\ Len(df) = 2
    /\ df[1]["A"] = "1" /\ Keys(df[1]) = {"A"} /\ Keys(df[2]) = {}
    /\ env_bundles.column = <<<<"A", "=", "1">>, <<"A", "=", "unset">>>>

(***************************************************************************)
(* Claims about Configuration.from_dict, build_command and the generator   *)
(* (SpecBuild).                                                            *)
(***************************************************************************)
OutsideVocabulary(d) ==
    \/ \E i \in 1..Len(d.collectives) : d.collectives[i] \notin VALID_COLLECTIVES
    \/ \E i \in 1..Len(d.datatypes) : d.datatypes[i] \notin VALID_DATATYPES

StepKindKnown(d) ==
    /\ d.has_step_details /\ d.step_details # <<>>
    /\ d.step_details[1].has_type /\ d.step_details[1].has_value
    /\ d.step_details[1].type \in {"multiple", "increment"}

BadEntry(v) == ~v.is_dict \/ ~v.has_id \/ ~v.has_value

OtherFieldsValid(d) ==
    /\ StepKindKnown(d)
    /\ \A i \in 1..Len(d.ENV_VARS) : ~BadEntry(d.ENV_VARS[i])
    /\ d.start_size.is_int => d.start_size.int >= 0
    /\ d.end_size.is_int => d.end_size.int >= 0

\* C21: construction fails when a collective or a datatype of the test dict
\* lies outside its vocabulary, and succeeds when all of them lie inside and
\* the other fields are valid.
C21_VocabularyDecidesConstruction ==
    config.state # "none" =>
        /\ OutsideVocabulary(test_dict) => config.state = "failed"
        /\ ~OutsideVocabulary(test_dict) /\ OtherFieldsValid(test_dict)
               => config.state = "constructed"

C21_Witness ==
    /\ config.state = "failed" /\ config.err = "ValueError"
    /\ OtherFieldsValid(test_dict)
    /\ \A i \in 1..Len(test_dict.collectives) : test_dict.collectives[i] \in VALID_COLLECTIVES
    /\ \E i \in 1..Len(test_dict.datatypes) : test_dict.datatypes[i] \notin VALID_DATATYPES

\* C22: from_dict fails and builds nothing when an ENV_VARS entry is not a
\* dict with both id and value; the Configuration it builds has one EnvVar
\* per entry, in order, so none for a dict without entries.
C22_BadEnvEntryFailsConstruction ==
    config.state # "none" =>
        /\ (\E i \in 1..Len(test_dict.ENV_VARS) : BadEntry(test_dict.ENV_VARS[i]))
               => config.state = "failed" /\ config.cfg = NoCfg
        /\ config.state = "constructed" =>
               /\ Len(config.cfg.ENV_VARS) = Len(test_dict.ENV_VARS)
               /\ \A i \in 1..Len(test_dict.ENV_VARS) :
                      /\ config.cfg.ENV_VARS[i].name = test_dict.ENV_VARS[i].id
                      /\ config.cfg.ENV_VARS[i].value = test_dict.ENV_VARS[i].value

C22_Witness ==
    /\ config.state = "failed" /\ config.err = "KeyError" /\ config.cfg = NoCfg
    /\ StepKindKnown(test_dict) /\ ~OutsideVocabulary(test_dict)
    /\ Len(test_dict.ENV_VARS) = 2
    /\ ~BadEntry(test_dict.ENV_VARS[1]) /\ BadEntry(test_dict.ENV_VARS[2])

\* C23: a test dict whose step kind is neither multiple nor increment builds
\* no Configuration, so nothing is run for it; and run_executable spawns
\* nothing for a Configuration whose step kind is neither: build_command
\* raises first.
C23_UnknownStepKindSpawnsNothing ==
    /\ config.state # "none" /\ ~StepKindKnown(test_dict)
           => config.state = "failed" /\ config.cfg = NoCfg /\ commands = <<>>
    /\ \A k \in 1..Len(commands) :
           (/\ commands[k].cfg.step_detail # NoStep
            /\ commands[k].cfg.step_detail.type \notin {"multiple", "increment"})
               => commands[k].raised = "KeyError" /\ ~commands[k].spawned

C23_Witness ==
    \E k \in 1..Len(commands) :
        /\ commands[k].cfg.step_detail.type = "bogus"
        /\ commands[k].raised = "KeyError" /\ ~commands[k].spawned

\* Where a piece stands in a command text.
Places(text, piece) == {i \in 1..Len(text) : text[i] = piece}

Contains(text, flag, value) ==
    \E i \in Places(text, flag) : i + 2 <= Len(text) /\ text[i + 1] = " " /\ text[i + 2] = value

\* C25: the command of a Configuration from_dict accepted holds exactly one
\* of -f and -i, the one of its step kind, followed by the step value; for
\* {multiple, 2}, [float], [sum] it holds -f 2, -d float and -o sum.
C25_StepFlagThenValue ==
    \A k \in 1..Len(commands) :
        (commands[k].raised = "" /\ commands[k].cfg = FromDict(test_dict).cfg) =>
            LET text == commands[k].text
                sd == commands[k].cfg.step_detail
                flag == IF sd.type = "multiple" THEN "-f" ELSE "-i"
            IN  /\ Cardinality(Places(text, "-f") \cup Places(text, "-i")) = 1
                /\ Contains(text, flag, IntStr(sd.value))
                /\ (/\ sd = [type |-> "multiple", value |-> 2]
                    /\ commands[k].cfg.datatypes = <<"float">>
                    /\ commands[k].cfg.operation = <<"sum">>)
                       => /\ Contains(text, "-f", "2")
                          /\ Contains(text, "-d", "float")
                          /\ Contains(text, "-o", "sum")

\* The entries of a Configuration whose value is not "default", in order.
NonDefault(cfg) ==
    LET Explicit(e) == e.value # "default" IN SelectSeq(cfg.ENV_VARS, Explicit)

\* The n-th place of the -x argument of an entry in a command text.
NthPlace(text, n) ==
    CHOOSE i \in Places(text, "-x ") :
        Cardinality({j \in Places(text, "-x ") : j < i}) = n - 1

\* C26: the command holds one -x NAME=VALUE argument for each entry whose
\* value is not "default", in the order of the entries, and none for an
\* entry whose value is "default".
C26_ExplicitEnvArguments ==
    \A k \in 1..Len(commands) :
        commands[k].raised = "" =>
            LET text == commands[k].text
                nd == NonDefault(commands[k].cfg)
            IN  /\ Cardinality(Places(text, "-x ")) = Len(nd)
                /\ \A n \in 1..Len(nd) :
                       LET i == NthPlace(text, n) IN
                       /\ i + 3 <= Len(text)
                       /\ text[i - 1] = " "
                       /\ SubSeq(text, i + 1, i + 3) = <<nd[n].name, "=", nd[n].value>>
                /\ \A i \in Places(text, "=") : text[i + 1] # "default"

C26_Witness ==
    \E k \in 1..Len(commands) :
        /\ commands[k].raised = ""
        /\ Len(NonDefault(commands[k].cfg)) = 2
        /\ Len(commands[k].cfg.ENV_VARS) = 3
        /\ NonDefault(commands[k].cfg)[1].name = "B"

\* C27: whatever the content of a result file, parse_output_json,
\* read_json_records and the parsing inside ingest_zip give the same
\* records, or fail alike.
C27_ParsersAgree ==
    parsed.fn # "" =>
        /\ ParseOutputJson(json_bytes) = ReadJsonRecords(json_bytes)
        /\ IngestInline(json_bytes) = ReadJsonRecords(json_bytes)
        /\ [raised |-> parsed.raised, records |-> parsed.records] = ReadJsonRecords(json_bytes)

\* C28: from_dict accepts every test dict the generator emits.
C28_GeneratedAccepted ==
    (test_dict \in final_configs /\ config.state # "none") => config.state = "constructed"

(***************************************************************************)
(* Ownership in the store (SpecIngest)                                     *)
(***************************************************************************)
ChildRows(rows) ==
    {r \in rows : r.tbl \in {"benchmark_records", "coverage_records", "env_vars"}}

RunIds(rows) == {r.run : r \in RunsOf(rows)}

\* C29: whatever ingestions, failed ones too, and deletions there were, every
\* stored BenchmarkRecord, CoverageRecord and EnvVar carries the id of a
\* stored Run, every such row of the open transaction or the session the id
\* of a Run stored or in the transaction; and a row an ingestion adds carries
\* the id of the Run that this ingestion created under its label.
C29_OwnershipConsistent ==
    /\ [](/\ \A r \in ChildRows(committed) : r.run \in RunIds(committed)
          /\ \A r \in ChildRows(flushed \cup pending) :
                 r.run \in RunIds(committed \cup flushed))
    /\ [][\A r \in ChildRows(pending') \ pending :
             /\ call'.fn \in {"ingest_zip", "ingest_coverage_json"}
             /\ \E run \in RunsOf(flushed') :
                    run.run = r.run /\ run.label = call'.label]_vars

\* C29's case: one ingestion failed and one succeeded, a Run that owned rows
\* was deleted, and rows of another Run are stored.
C29_Witness ==
    /\ call.fn = "delete_run" /\ call.phase = "returned" /\ call.owned >= 1
    /\ \E k \in 1..Len(hist) : hist[k].outcome = "raised"
    /\ \E k \in 1..Len(hist) : hist[k].outcome = "returned"
    /\ ChildRows(committed) # {}

================================================================================
